---------------------------- MODULE Spec2Model ----------------------------
(***************************************************************************)
(* State-machine model of cpuid_helper.cpp: the frequency fallback chain,  *)
(* the vendor-specific cache decoders, per-processor APIC topology         *)
(* enumeration under thread affinity, the cache-sharing grouper and the    *)
(* JSON emission of main().                                                *)
(*                                                                         *)
(* CPUID registers are C ints (signed 32 bit), which is exactly the range  *)
(* of a TLC integer.  Wider C arithmetic (long long, double) is computed   *)
(* on limb sequences so that no intermediate value leaves that range.      *)
(***************************************************************************)
EXTENDS Integers, Sequences, FiniteSets, TLC

(***************************************************************************)
(* Bit fields of a signed 32-bit int: x >> k is an arithmetic shift and    *)
(* & with a low mask is the remainder.                                     *)
(***************************************************************************)
Pow2(k) == 2 ^ k

Shr(x, k) == x \div Pow2(k)

Field(x, lo, width) == (x \div Pow2(lo)) % Pow2(width)

(***************************************************************************)
(* Natural numbers wider than 31 bits: little-endian limbs in base 2^15,   *)
(* without leading zero limbs (<<>> is 0).                                 *)
(***************************************************************************)
LimbBase == 32768

RECURSIVE BigNorm(_)
BigNorm(a) ==
    IF a = <<>> THEN <<>>
    ELSE IF a[Len(a)] = 0 THEN BigNorm(SubSeq(a, 1, Len(a) - 1))
    ELSE a

RECURSIVE BigFromNat(_)
BigFromNat(n) ==
    IF n = 0 THEN <<>>
    ELSE <<n % LimbBase>> \o BigFromNat(n \div LimbBase)

RECURSIVE BigMulCarry(_, _, _)
BigMulCarry(a, k, c) ==
    IF a = <<>> THEN BigFromNat(c)
    ELSE LET t == Head(a) * k + c
         IN  <<t % LimbBase>> \o BigMulCarry(Tail(a), k, t \div LimbBase)

\* a * k for a limb-sized k (0 <= k < 2^15)
BigMulSmall(a, k) == BigNorm(BigMulCarry(a, k, 0))

RECURSIVE BigAddCarry(_, _, _)
BigAddCarry(a, b, c) ==
    IF a = <<>> /\ b = <<>> THEN BigFromNat(c)
    ELSE LET x == IF a = <<>> THEN 0 ELSE Head(a)
             y == IF b = <<>> THEN 0 ELSE Head(b)
             t == x + y + c
         IN  <<t % LimbBase>>
                \o BigAddCarry(IF a = <<>> THEN <<>> ELSE Tail(a),
                               IF b = <<>> THEN <<>> ELSE Tail(b),
                               t \div LimbBase)

BigAdd(a, b) == BigNorm(BigAddCarry(a, b, 0))

BigShiftLimbs(a, n) ==
    IF a = <<>> THEN <<>> ELSE [i \in 1..n |-> 0] \o a

\* a * n for any n in 0 .. 2^31 - 1
BigMulNat(a, n) ==
    BigAdd(BigMulSmall(a, n % LimbBase),
           BigAdd(BigShiftLimbs(BigMulSmall(a, (n \div LimbBase) % LimbBase), 1),
                  BigShiftLimbs(BigMulSmall(a, n \div (LimbBase * LimbBase)), 2)))

RECURSIVE BigDivRem(_, _, _, _)
BigDivRem(a, k, i, rem) ==
    IF i = 0 THEN <<>>
    ELSE LET t == rem * LimbBase + a[i]
         IN  BigDivRem(a, k, i - 1, t % k) \o <<t \div k>>

\* floor(a / k) for 0 < k < 2^15
BigDivSmall(a, k) == BigNorm(BigDivRem(a, k, Len(a), 0))

RECURSIVE BigLessFrom(_, _, _)
BigLessFrom(a, b, i) ==
    IF i = 0 THEN FALSE
    ELSE IF a[i] # b[i] THEN a[i] < b[i]
    ELSE BigLessFrom(a, b, i - 1)

BigLess(a, b) ==
    IF Len(a) # Len(b) THEN Len(a) < Len(b) ELSE BigLessFrom(a, b, Len(a))

BigLimb(a, i) == IF i <= Len(a) THEN a[i] ELSE 0

\* the low 32 bits of a, read as a two's-complement int
BigLow32(a) ==
    LET lo31 == BigLimb(a, 1) + BigLimb(a, 2) * LimbBase
                  + (BigLimb(a, 3) % 2) * (LimbBase * LimbBase)
        bit31 == (BigLimb(a, 3) \div 2) % 2
    IN  IF bit31 = 1 THEN (lo31 - 1073741824) - 1073741824 ELSE lo31

\* -x in 32-bit two's complement
Neg32(x) == IF x = (-1073741824) - 1073741824 THEN x ELSE 0 - x

\* a signed wide integer: [neg |-> sign, mag |-> limbs]
WideFromInt(x) ==
    IF x >= 0 THEN [neg |-> FALSE, mag |-> BigFromNat(x)]
    ELSE IF x = (-1073741824) - 1073741824
         THEN [neg |-> TRUE, mag |-> BigAdd(BigFromNat(2147483647), BigFromNat(1))]
         ELSE [neg |-> TRUE, mag |-> BigFromNat(0 - x)]

\* (int) of a wide integer: truncation to the low 32 bits
WideToInt(w) == IF w.neg THEN Neg32(BigLow32(w.mag)) ELSE BigLow32(w.mag)


(***************************************************************************)
(* State.  hw, os and build are the machine the program runs on and never  *)
(* change; the rest are the variables of main() and of the functions it    *)
(* calls.                                                                  *)
(***************************************************************************)
VARIABLES
    hw,                 \* CPUID data of the processor(s)
    os,                 \* process affinity mask, initial thread mask, core list
    build,              \* what the build does where the C code is undefined
    pc,                 \* position in main()
    brand,              \* char brand[64], up to its NUL
    vendor,             \* CpuVendor
    max_leaf,           \* int max_leaf
    freq,               \* base_mhz, max_mhz, bus_mhz, turbo_supported, success
    cache,              \* CacheInfo l1d, l1i, l2, l3
    ecx,                \* subleaf index of the loop in detect_intel_caches
    cpuidLog,           \* the <<leaf, subleaf>> pairs read_cpuid was called with
    aff,                \* the calling thread's affinity mask (set of bit numbers)
    topo,               \* locals of detect_apic_topology
    topo_array,         \* PerCoreTopology records written so far
    num_logical_cores,  \* int num_logical_cores
    groups,             \* l1d_groups, l2_groups, l3_groups
    out,                \* the JSON object printed, NoOutput before it is printed
    exit_status         \* the value main() returned: {} while it runs

vars == <<hw, os, build, pc, brand, vendor, max_leaf, freq, cache, ecx,
          cpuidLog, aff, topo, topo_array, num_logical_cores, groups, out,
          exit_status>>

NULL == "NULL"

\* standard output before the first printf
NoOutput == [printed |-> FALSE]

\* leaf 0x80000000 + n as the int handed to read_cpuid
ExtLeaf(n) == ((-1073741824) - 1073741824) + n

(***************************************************************************)
(* read_cpuid: the four words of a leaf on the processor the thread runs   *)
(* on.  Calls are recorded in cpuidLog.                                    *)
(***************************************************************************)
ZeroEntry == [eax |-> 0, ebx |-> 0, ecx |-> 0, edx |-> 0]

\* leaf 4: a prefix of subleaves, an optional type-0 entry, then hw.leaf4.rest
Leaf4(i) ==
    IF i < Len(hw.leaf4.prefix) THEN hw.leaf4.prefix[i + 1]
    ELSE IF hw.leaf4.term /\ i = Len(hw.leaf4.prefix) THEN ZeroEntry
    ELSE hw.leaf4.rest

\* leaf 0xB / 0x1F subleaf i, executed on processor p (EDX = its x2APIC id)
TopoLeaf(leaf, i, p) ==
    LET levels == IF leaf = 31 THEN hw.leaf1F ELSE hw.leafB
        e == IF i < Len(levels) THEN levels[i + 1] ELSE [eax |-> 0, ecx |-> 0]
    IN  [eax |-> e.eax, ebx |-> 0, ecx |-> e.ecx, edx |-> hw.apic[p]]

(***************************************************************************)
(* get_cpu_vendor: the 12 bytes of EBX, EDX, ECX of leaf 0, in that order, *)
(* compared with the two signatures.                                       *)
(***************************************************************************)
Bytes(w) == <<w % 256, (w \div 256) % 256, (w \div 65536) % 256, (w \div 16777216) % 256>>

GenuineIntel == <<71, 101, 110, 117, 105, 110, 101, 73, 110, 116, 101, 108>>

AuthenticAMD == <<65, 117, 116, 104, 101, 110, 116, 105, 99, 65, 77, 68>>

VendorBytes(r) == Bytes(r.ebx) \o Bytes(r.edx) \o Bytes(r.ecx)

\* get_cpu_vendor comparing the words in register order EBX, ECX, EDX
get_cpu_vendor_register_order(r) ==
    IF Bytes(r.ebx) \o Bytes(r.ecx) \o Bytes(r.edx) = GenuineIntel THEN "VENDOR_INTEL"
    ELSE IF Bytes(r.ebx) \o Bytes(r.ecx) \o Bytes(r.edx) = AuthenticAMD THEN "VENDOR_AMD"
    ELSE "VENDOR_UNKNOWN"

get_cpu_vendor(r) ==
    IF VendorBytes(r) = GenuineIntel THEN "VENDOR_INTEL"
    ELSE IF VendorBytes(r) = AuthenticAMD THEN "VENDOR_AMD"
    ELSE "VENDOR_UNKNOWN"

get_max_cpuid_leaf == hw.leaf0.eax

(***************************************************************************)
(* get_brand_string: empty unless the extended leaves reach 0x80000004     *)
(* (an unsigned comparison); otherwise the bytes of leaves 0x80000002..4.  *)
(***************************************************************************)
get_brand_string ==
    IF hw.ext0 >= 0 \/ hw.ext0 < ExtLeaf(4) THEN <<>> ELSE hw.brand

(***************************************************************************)
(* parse_frequency_from_brand.  A string is a sequence of characters.      *)
(***************************************************************************)
Digits == {"0", "1", "2", "3", "4", "5", "6", "7", "8", "9"}

DigitVal(c) ==
    CASE c = "0" -> 0 [] c = "1" -> 1 [] c = "2" -> 2 [] c = "3" -> 3
      [] c = "4" -> 4 [] c = "5" -> 5 [] c = "6" -> 6 [] c = "7" -> 7
      [] c = "8" -> 8 [] c = "9" -> 9

ToUpperChar(c) ==
    CASE c = "a" -> "A" [] c = "b" -> "B" [] c = "c" -> "C" [] c = "d" -> "D"
      [] c = "e" -> "E" [] c = "f" -> "F" [] c = "g" -> "G" [] c = "h" -> "H"
      [] c = "i" -> "I" [] c = "j" -> "J" [] c = "k" -> "K" [] c = "l" -> "L"
      [] c = "m" -> "M" [] c = "n" -> "N" [] c = "o" -> "O" [] c = "p" -> "P"
      [] c = "q" -> "Q" [] c = "r" -> "R" [] c = "s" -> "S" [] c = "t" -> "T"
      [] c = "u" -> "U" [] c = "v" -> "V" [] c = "w" -> "W" [] c = "x" -> "X"
      [] c = "y" -> "Y" [] c = "z" -> "Z"
      [] OTHER -> c

Upper(s) == [i \in 1..Len(s) |-> ToUpperChar(s[i])]

\* strstr: index of the first occurrence of a three-character token, 0 if none
StrStr3(s, tok) ==
    LET hits == {i \in 1..(Len(s) - 2) : SubSeq(s, i, i + 2) = tok}
    IN  IF hits = {} THEN 0 ELSE CHOOSE i \in hits : \A j \in hits : i <= j

\* the backward walk over digits, '.' and ' ' that ends left of the number
RECURSIVE WalkBack(_, _)
WalkBack(s, p) ==
    IF p >= 1 /\ (s[p] \in Digits \/ s[p] = "." \/ s[p] = " ")
    THEN WalkBack(s, p - 1)
    ELSE p

\* the digits and dots of s[p .. target-1], at most 31 of them
RECURSIVE Collect(_, _, _, _)
Collect(s, p, target, number) ==
    IF p < target /\ Len(number) < 31
    THEN Collect(s, p + 1, target,
                 IF s[p] \in Digits \/ s[p] = "." THEN Append(number, s[p]) ELSE number)
    ELSE number

\* atof of a string of digits and dots: [num, den] with value num / den;
\* it stops at a second dot
RECURSIVE Atof(_, _, _, _, _)
Atof(number, i, num, den, dotSeen) ==
    IF i > Len(number) THEN [num |-> num, den |-> den]
    ELSE IF number[i] = "."
         THEN IF dotSeen THEN [num |-> num, den |-> den]
              ELSE Atof(number, i + 1, num, den, TRUE)
    ELSE Atof(number, i + 1, num * 10 + DigitVal(number[i]),
              IF dotSeen THEN den * 10 ELSE den, dotSeen)

\* (int)(num / den * scale + 0.5)
RoundScaled(v, scale) == (2 * v.num * scale + v.den) \div (2 * v.den)

\* [ok |-> return value, mhz |-> *freq_mhz_out (0 when it is not written)]
parse_frequency_from_brand(b) ==
    LET upper  == Upper(b)
        ghz    == StrStr3(upper, <<"G", "H", "Z">>)
        mhz    == StrStr3(upper, <<"M", "H", "Z">>)
        target == IF ghz # 0 THEN ghz ELSE mhz
        p      == WalkBack(upper, target - 1) + 1
        number == Collect(upper, p, target, <<>>)
        val    == Atof(number, 1, 0, 1, FALSE)
    IN  IF target = 0 THEN [ok |-> 0, mhz |-> 0]
        ELSE IF Len(number) = 0 THEN [ok |-> 0, mhz |-> 0]
        ELSE IF val.num <= 0 THEN [ok |-> 0, mhz |-> 0]
        ELSE [ok |-> 1,
              mhz |-> IF ghz # 0 /\ ghz = target THEN RoundScaled(val, 1000)
                      ELSE RoundScaled(val, 1)]

(***************************************************************************)
(* The frequency fallback chain of main(): one operator per stage, each    *)
(* from the FrequencyResult so far to the FrequencyResult after it.        *)
(***************************************************************************)
FreqInit == [base_mhz |-> 0, max_mhz |-> 0, bus_mhz |-> 0,
             turbo_supported |-> 0, success |-> 0]

\* leaf 0x16 (main, lines 542-559)
Leaf16Stage(f, ml, r) ==
    IF ml >= 22
    THEN LET b == Field(r.eax, 0, 16)
             m == Field(r.ebx, 0, 16)
         IN  [f EXCEPT !.base_mhz = b, !.max_mhz = m,
                       !.bus_mhz = Field(r.ecx, 0, 16),
                       !.success = IF b > 0 /\ m > 0 THEN 1 ELSE f.success]
    ELSE f

\* the largest q in lo..hi with d * q <= a
RECURSIVE BigQuot(_, _, _, _)
BigQuot(a, d, lo, hi) ==
    IF lo = hi THEN lo
    ELSE LET mid == lo + ((hi - lo) \div 2) + ((hi - lo) % 2)
         IN  IF BigLess(a, BigMulNat(d, mid))
             THEN BigQuot(a, d, lo, mid - 1)
             ELSE BigQuot(a, d, mid, hi)

\* (int)(crystal_mhz + 0.5), crystal_mhz = ecx / 1e6
CrystalBus(c) == (c \div 1000000) + (IF c % 1000000 >= 500000 THEN 1 ELSE 0)

\* the conversion (int)x of a double x >= 0 with floor(x) = q: undefined when
\* the value does not fit an int; the conversion instruction of the build then
\* yields the "integer indefinite" value INT_MIN, or saturates at INT_MAX
FpToInt(fits, q) ==
    IF fits THEN q
    ELSE IF build.fptoint = "indefinite" THEN (0 - 2147483647) - 1
    ELSE 2147483647

\* (int)(derived_base + 0.5), derived_base = (ecx / 1e6) * (ebx / eax):
\* floor((2 * ecx * ebx + eax * 1e6) / (2 * eax * 1e6)) where that fits an int
DerivedBase(r) ==
    LET num == BigAdd(BigMulSmall(BigMulNat(BigFromNat(r.ecx), r.ebx), 2),
                      BigMulNat(BigFromNat(r.eax), 1000000))
        den == BigMulSmall(BigMulNat(BigFromNat(r.eax), 1000000), 2)
        top == BigAdd(BigMulNat(den, 2147483647), den)
    IN  FpToInt(BigLess(num, top), BigQuot(num, den, 0, 2147483647))

\* the leaf 0x15 stage entered with a denominator EAX that may be zero
Leaf15Stage_zero_denominator(f, ml, r) ==
    IF ml >= 21 /\ r.eax >= 0 /\ r.ebx > 0 /\ r.ecx > 0
    THEN LET bus  == IF f.bus_mhz = 0 THEN CrystalBus(r.ecx) ELSE f.bus_mhz
             fill == f.base_mhz = 0
             base == IF fill THEN DerivedBase(r) ELSE f.base_mhz
         IN  [f EXCEPT !.bus_mhz = bus,
                       !.base_mhz = base,
                       !.max_mhz = IF fill /\ f.max_mhz = 0 THEN base ELSE f.max_mhz,
                       !.success = IF fill THEN 1 ELSE f.success]
    ELSE f

\* leaf 0x15 (main, lines 561-584)
Leaf15Stage(f, ml, r) ==
    IF ml >= 21 /\ r.eax > 0 /\ r.ebx > 0 /\ r.ecx > 0
    THEN LET bus  == IF f.bus_mhz = 0 THEN CrystalBus(r.ecx) ELSE f.bus_mhz
             fill == f.base_mhz = 0
             base == IF fill THEN DerivedBase(r) ELSE f.base_mhz
         IN  [f EXCEPT !.bus_mhz = bus,
                       !.base_mhz = base,
                       !.max_mhz = IF fill /\ f.max_mhz = 0 THEN base ELSE f.max_mhz,
                       !.success = IF fill THEN 1 ELSE f.success]
    ELSE f

\* leaf 0x06 (main, lines 586-591)
Leaf06Stage(f, ml, r) ==
    IF ml >= 6
    THEN [f EXCEPT !.turbo_supported = IF Field(r.eax, 1, 1) # 0 THEN 1 ELSE 0]
    ELSE f

\* the brand-string fallback writing both clocks whenever it runs
BrandStage_overwrite_both(f, b) ==
    IF f.success = 0 \/ f.base_mhz = 0 \/ f.max_mhz = 0
    THEN LET parsed == parse_frequency_from_brand(b)
         IN  IF parsed.ok # 0 /\ parsed.mhz > 0
             THEN [f EXCEPT !.base_mhz = parsed.mhz, !.max_mhz = parsed.mhz, !.success = 1]
             ELSE f
    ELSE f

\* brand-string fallback (main, lines 593-601)
BrandStage(f, b) ==
    IF f.success = 0 \/ f.base_mhz = 0 \/ f.max_mhz = 0
    THEN LET parsed == parse_frequency_from_brand(b)
         IN  IF parsed.ok # 0 /\ parsed.mhz > 0
             THEN [f EXCEPT !.base_mhz = IF f.base_mhz = 0 THEN parsed.mhz ELSE f.base_mhz,
                            !.max_mhz = IF f.max_mhz = 0 THEN parsed.mhz ELSE f.max_mhz,
                            !.success = 1]
             ELSE f
    ELSE f

\* the WMI fallback without its "max_mhz == 0" test
WmiStage_unguarded(f, wmi_max) ==
    IF wmi_max > 0
    THEN [f EXCEPT !.max_mhz = wmi_max,
                   !.base_mhz = IF f.base_mhz = 0 THEN wmi_max ELSE f.base_mhz,
                   !.success = 1]
    ELSE f

\* WMI fallback (main, lines 603-619); wmi_max is get_max_clock_wmi()'s result
WmiStage(f, wmi_max) ==
    IF f.max_mhz = 0 /\ wmi_max > 0
    THEN [f EXCEPT !.max_mhz = wmi_max,
                   !.base_mhz = IF f.base_mhz = 0 THEN wmi_max ELSE f.base_mhz,
                   !.success = 1]
    ELSE f

\* get_turbo_ratios
get_turbo_ratios ==
    IF get_max_cpuid_leaf < 22
    THEN [available |-> 0, base_freq |-> 0, max_turbo_1c |-> 0, max_turbo_ac |-> 0]
    ELSE [available |-> 1,
          base_freq |-> Field(hw.leaf16.eax, 0, 16),
          max_turbo_1c |-> Field(hw.leaf16.ebx, 0, 16),
          max_turbo_ac |-> Field(hw.leaf16.ecx, 0, 16)]

(***************************************************************************)
(* Cache decoders.                                                         *)
(***************************************************************************)
CacheInfoZero == [size_kb |-> 0, assoc |-> 0, line_size |-> 0, partitions |-> 0,
                  sets |-> 0, cores_sharing |-> 0, is_inclusive |-> 0]

CacheInit == [l1d |-> CacheInfoZero, l1i |-> CacheInfoZero,
              l2 |-> CacheInfoZero, l3 |-> CacheInfoZero]

Levels == {"l1d", "l1i", "l2", "l3"}

INT_MIN == (-1073741824) - 1073741824

\* int sets = r.ecx + 1; at INT_MAX the addition overflows
SetsOf(r) == IF r.ecx = 2147483647 THEN INT_MIN ELSE r.ecx + 1

\* the value of sets that enters the long long product: the int, or at INT_MAX,
\* in a build that widens before adding, 2^31
SetsWide(r) ==
    IF r.ecx = 2147483647 /\ build.sets_overflow = "wide"
    THEN [neg |-> FALSE, mag |-> WideFromInt(INT_MIN).mag]
    ELSE WideFromInt(SetsOf(r))

\* (int)(((long long)ways * partitions * line_size * sets) / 1024)
SizeKb(ways, partitions, line_size, sets) ==
    LET bytes == BigMulSmall(BigMulSmall(BigMulSmall(sets.mag, ways), partitions), line_size)
    IN  WideToInt([neg |-> sets.neg, mag |-> BigDivSmall(bytes, 1024)])

\* the target selection with every unified cache beyond level 2 stored in l3
TargetOf_deep_unified_to_l3(cache_type, level) ==
    IF cache_type = 1 THEN (IF level = 1 THEN "l1d" ELSE NULL)
    ELSE IF cache_type = 2 THEN (IF level = 1 THEN "l1i" ELSE NULL)
    ELSE IF cache_type = 3
         THEN (IF level = 1 THEN "l1d"
               ELSE IF level = 2 THEN "l2"
               ELSE "l3")
    ELSE NULL

\* the level a (cache_type, level) pair is stored in, NULL if none
TargetOf(cache_type, level) ==
    IF cache_type = 1 THEN (IF level = 1 THEN "l1d" ELSE NULL)
    ELSE IF cache_type = 2 THEN (IF level = 1 THEN "l1i" ELSE NULL)
    ELSE IF cache_type = 3
         THEN (IF level = 1 THEN "l1d"
               ELSE IF level = 2 THEN "l2"
               ELSE IF level = 3 THEN "l3" ELSE NULL)
    ELSE NULL

\* the number of consecutive set bits of apic_mask from bit i on, below bit 12
RECURSIVE BitCount(_, _)
BitCount(apic_mask, i) ==
    IF i < 12 /\ Field(apic_mask, i, 1) = 1 THEN 1 + BitCount(apic_mask, i + 1) ELSE 0

\* the sharing width taken as the 12-bit field plus one
CoresSharing_field_plus_one(eax) == Field(eax, 14, 12) + 1

CoresSharing(eax) ==
    LET bit_count == BitCount(Field(eax, 14, 12), 0)
    IN  IF bit_count > 0 THEN Pow2(bit_count) ELSE 1

\* whether the level is still to be filled ("Only fill once", line 281)
FillGuard(info) == info.size_kb = 0

\* the CacheInfo a subleaf r describes
DecodeSubleaf(r) ==
    LET line_size  == Field(r.ebx, 0, 12) + 1
        partitions == Field(r.ebx, 12, 10) + 1
        ways       == Field(r.ebx, 22, 10) + 1
    IN  [size_kb       |-> SizeKb(ways, partitions, line_size, SetsWide(r)),
         assoc         |-> ways,
         line_size     |-> line_size,
         partitions    |-> partitions,
         sets          |-> SetsOf(r),
         cores_sharing |-> CoresSharing(r.eax),
         is_inclusive  |-> Field(r.eax, 9, 1)]

\* one iteration of the loop of detect_intel_caches on a subleaf of nonzero type
IntelSubleaf(c, r) ==
    LET target == TargetOf(Field(r.eax, 0, 5), Field(r.eax, 5, 3))
    IN  IF target # NULL /\ FillGuard(c[target])
        THEN [c EXCEPT ![target] = DecodeSubleaf(r)]
        ELSE c

\* the loop of detect_intel_caches without its break
IsTerminator_no_break(r) == FALSE

\* whether the loop of detect_intel_caches stops at subleaf r
IsTerminator(r) == Field(r.eax, 0, 5) = 0

\* the bound of the subleaf loop
MaxSubleaves == 32

AmdLevel(info, val) ==
    IF val > 0
    THEN [info EXCEPT !.size_kb = val, !.cores_sharing = -1, !.is_inclusive = -1]
    ELSE info

detect_amd_caches(c, r5, r6) ==
    [l1d |-> AmdLevel(c.l1d, Field(r5.ecx, 24, 8)),
     l1i |-> AmdLevel(c.l1i, Field(r5.edx, 24, 8)),
     l2  |-> AmdLevel(c.l2, Field(r6.ecx, 16, 16)),
     l3  |-> AmdLevel(c.l3, Field(r6.edx, 18, 14) * 512)]

(***************************************************************************)
(* detect_apic_topology.  An affinity mask is the set of its bit numbers.  *)
(***************************************************************************)
\* the capacity of topo_array ("*num_cores < 256", PerCoreTopology topo_array[256])
MaxRecords == 256

\* the width of DWORD_PTR / KAFFINITY
WordBits == 64

\* total_logical_processors of the buffer GetLogicalProcessorInformationEx
\* filled (lines 368-388): the loops add one for every set bit of every group
\* mask of every RelationProcessorCore entry
CountProcessors(infos) ==
    Cardinality(UNION {UNION {{<<i, group, b>> : b \in infos[i].GroupMask[group]} :
                                 group \in DOMAIN infos[i].GroupMask} :
                          i \in {j \in DOMAIN infos :
                                    infos[j].Relationship = "RelationProcessorCore"}})

\* SetThreadAffinityMask: fails (returns 0, changes nothing) unless the mask is a
\* non-empty subset of the process affinity mask; otherwise returns the old mask
SetThreadAffinityMask(cur, mask) ==
    IF mask # {} /\ mask \subseteq os.procAff
    THEN [ret |-> cur, aff |-> mask]
    ELSE [ret |-> {}, aff |-> cur]

\* (DWORD_PTR)1 << lp; a shift by the word width or more is undefined: the
\* build either shifts modulo the width or shifts the bit out
AffinityMaskOf(lp) ==
    IF lp < WordBits THEN {lp}
    ELSE IF build.shl = "mod" THEN {lp % WordBits}
    ELSE {}

\* the processor a thread pinned to a one-bit mask runs on
RunningOn(mask) == CHOOSE p \in mask : TRUE

\* x & y and ~x on 32-bit ints
RECURSIVE AndBits(_, _, _)
AndBits(x, y, i) ==
    IF i > 30 THEN 0
    ELSE Field(x, i, 1) * Field(y, i, 1) * Pow2(i) + AndBits(x, y, i + 1)

And32(x, y) ==
    IF x < 0 /\ y < 0 THEN (AndBits(x, y, 0) - 1073741824) - 1073741824
    ELSE AndBits(x, y, 0)

Not32(x) == (0 - x) - 1

\* the subleaf loop over the topology leaf (lines 414-432)
RECURSIVE TopoLevels(_, _, _, _)
TopoLevels(leaf, p, subleaf, bits) ==
    IF subleaf >= 8 THEN bits
    ELSE LET r_sub      == TopoLeaf(leaf, subleaf, p)
             level_type == Field(r_sub.ecx, 8, 8)
             shift_bits == Field(r_sub.eax, 0, 5)
         IN  IF level_type = 0 THEN bits
             ELSE TopoLevels(leaf, p, subleaf + 1,
                    IF level_type = 1 THEN [bits EXCEPT !.smt = shift_bits]
                    ELSE IF level_type = 2 THEN [bits EXCEPT !.core = shift_bits]
                    ELSE IF level_type = 5 THEN [bits EXCEPT !.tile = shift_bits]
                    ELSE bits)

\* the record written for logical processor lp while running on processor p
TopoRecord(lp, p, leaf, ml) ==
    LET apic_id   == TopoLeaf(leaf, 0, p).edx
        bits      == TopoLevels(leaf, p, 0, [smt |-> 0, core |-> 0, tile |-> 0])
        smt_mask  == Pow2(bits.smt) - 1
        core_mask == And32(Pow2(bits.core) - 1, Not32(smt_mask))
    IN  [apic_id       |-> apic_id,
         logical_index |-> lp,
         package_id    |-> Shr(apic_id, bits.core),
         core_index    |-> Shr(And32(apic_id, core_mask), bits.smt),
         tile_id       |-> IF bits.tile > 0 THEN Shr(apic_id, bits.tile) ELSE 0,
         die_id        |-> 0,
         module_id     |-> 0,
         core_type     |-> IF ml >= 26 THEN Field(hw.leaf1A[p], 24, 8) ELSE 0]

\* the restore at the end of detect_apic_topology (lines 459-462)
RestoreAffinity(cur, original_affinity) ==
    IF original_affinity # {}
    THEN SetThreadAffinityMask(cur, original_affinity).aff
    ELSE cur

(***************************************************************************)
(* derive_cache_sharing_groups and the unique-group count of main().       *)
(***************************************************************************)
RECURSIVE CalcShiftLoop(_, _)
CalcShiftLoop(val, shift) ==
    IF val > 1 THEN CalcShiftLoop(Shr(val, 1), shift + 1) ELSE shift

\* calc_shift counting one shift too many
calc_shift_off_by_one(cores_sharing) ==
    IF cores_sharing <= 1 THEN 0 ELSE CalcShiftLoop(cores_sharing, 0) + 1

calc_shift(cores_sharing) ==
    IF cores_sharing <= 1 THEN 0 ELSE CalcShiftLoop(cores_sharing, 0)

\* the group id of one record at a level with the shift left out
GroupId_unshifted(apic, info) == apic

\* the group id of one record at a level (lines 515-526)
GroupId(apic, info) == Shr(apic, calc_shift(info.cores_sharing))

\* a table pointer: NULL, or allocated with its entries
NullTable == [allocated |-> FALSE, at |-> <<>>]

Table(entries) == [allocated |-> TRUE, at |-> entries]

NoGroups == [l1d |-> NullTable, l2 |-> NullTable, l3 |-> NullTable]

\* the grouper without its "num_cores == 0" return: the three malloc(0) calls
\* are made and the pointers they return are stored
derive_cache_sharing_groups_no_empty_return(arr, num_cores, l1d, l2, l3, alloc, garbage) ==
    IF ~(alloc.l1d /\ alloc.l2 /\ alloc.l3)
    THEN LET uninit == Table([i \in 1..num_cores |-> garbage])
         IN  [l1d |-> IF alloc.l1d THEN uninit ELSE NullTable,
              l2  |-> IF alloc.l2 THEN uninit ELSE NullTable,
              l3  |-> IF alloc.l3 THEN uninit ELSE NullTable]
    ELSE [l1d |-> Table([i \in 1..num_cores |-> GroupId(arr[i].apic_id, l1d)]),
          l2  |-> Table([i \in 1..num_cores |-> GroupId(arr[i].apic_id, l2)]),
          l3  |-> Table([i \in 1..num_cores |-> GroupId(arr[i].apic_id, l3)])]

\* alloc: which of the three malloc calls succeed; garbage: what an allocated
\* but never initialised table holds
derive_cache_sharing_groups(arr, num_cores, l1d, l2, l3, alloc, garbage) ==
    IF num_cores = 0 THEN NoGroups
    ELSE IF ~(alloc.l1d /\ alloc.l2 /\ alloc.l3)
         THEN LET uninit == Table([i \in 1..num_cores |-> garbage])
              IN  [l1d |-> IF alloc.l1d THEN uninit ELSE NullTable,
                   l2  |-> IF alloc.l2 THEN uninit ELSE NullTable,
                   l3  |-> IF alloc.l3 THEN uninit ELSE NullTable]
    ELSE [l1d |-> Table([i \in 1..num_cores |-> GroupId(arr[i].apic_id, l1d)]),
          l2  |-> Table([i \in 1..num_cores |-> GroupId(arr[i].apic_id, l2)]),
          l3  |-> Table([i \in 1..num_cores |-> GroupId(arr[i].apic_id, l3)])]

\* the size of the seen_* arrays of main()
SeenSize == 256

\* the counting loop over one table (lines 729-735): entry i adds one when its
\* value indexes the seen array and no earlier entry has marked that value
CountUnique(tbl, n) ==
    Cardinality({i \in 1..n :
                    /\ tbl[i] >= 0
                    /\ tbl[i] < SeenSize
                    /\ \A j \in 1..(i - 1) : tbl[j] # tbl[i]})

\* l1d_unique, l2_unique, l3_unique (lines 726-754)
UniqueCounts(g, n) ==
    IF g.l1d.allocated /\ g.l2.allocated /\ g.l3.allocated
    THEN [l1d_instances |-> CountUnique(g.l1d.at, n),
          l2_instances  |-> CountUnique(g.l2.at, n),
          l3_instances  |-> CountUnique(g.l3.at, n)]
    ELSE [l1d_instances |-> 0, l2_instances |-> 0, l3_instances |-> 0]

(***************************************************************************)
(* The JSON object main() prints.  An optional group of fields is a set:   *)
(* empty when it is not printed, else holding the record of its fields.    *)
(***************************************************************************)
\* whether the detail fields of a level are printed
DetailPrinted(info) == info.size_kb > 0

EmitLevel(info) ==
    [kb     |-> info.size_kb,
     detail |-> IF DetailPrinted(info)
                THEN {[assoc |-> info.assoc, line |-> info.line_size,
                       partitions |-> info.partitions, sets |-> info.sets,
                       cores_sharing |-> info.cores_sharing,
                       inclusive |-> info.is_inclusive]}
                ELSE {}]

EmitApic(arr, g, i) ==
    [index     |-> arr[i].logical_index,
     apic      |-> arr[i].apic_id,
     core_type |-> arr[i].core_type,
     l1d_group |-> IF g.l1d.allocated THEN g.l1d.at[i] ELSE -1,
     l2_group  |-> IF g.l2.allocated THEN g.l2.at[i] ELSE -1,
     l3_group  |-> IF g.l3.allocated THEN g.l3.at[i] ELSE -1]

EmitJson(f, b, c, ml, arr, n, g, turbo) ==
    [base_mhz          |-> f.base_mhz,
     max_mhz           |-> f.max_mhz,
     bus_mhz           |-> f.bus_mhz,
     turbo_supported   |-> f.turbo_supported,
     cpuid_turbo       |-> IF turbo.available # 0 THEN {turbo} ELSE {},
     brand             |-> b,
     l1d               |-> EmitLevel(c.l1d),
     l1i               |-> EmitLevel(c.l1i),
     l2                |-> EmitLevel(c.l2),
     l3                |-> EmitLevel(c.l3),
     max_cpuid_leaf    |-> ml,
     num_logical_cores |-> n,
     apic_ids          |-> [i \in 1..n |-> EmitApic(arr, g, i)],
     cache_sharing     |-> UniqueCounts(g, n),
     success           |-> f.success]

(***************************************************************************)
(* The machines the program is run on: CPUID data, OS data and build.      *)
(***************************************************************************)
Word4(b0, b1, b2, b3) == b0 + 256 * b1 + 65536 * b2 + 16777216 * b3

IntelLeaf0(ml) == [eax |-> ml, ebx |-> Word4(71, 101, 110, 117),
                   edx |-> Word4(105, 110, 101, 73), ecx |-> Word4(110, 116, 101, 108)]

AmdLeaf0(ml) == [eax |-> ml, ebx |-> Word4(65, 117, 116, 104),
                 edx |-> Word4(101, 110, 116, 105), ecx |-> Word4(99, 65, 77, 68)]

\* the words of "GenuineIntel" with ECX and EDX exchanged: no known signature
SwappedLeaf0(ml) == [eax |-> ml, ebx |-> Word4(71, 101, 110, 117),
                     edx |-> Word4(110, 116, 101, 108), ecx |-> Word4(105, 110, 101, 73)]

BlankLeaf0(ml) == [eax |-> ml, ebx |-> 0, edx |-> 0, ecx |-> 0]

\* a leaf 4 subleaf from its fields (the "-1" fields hold value - 1)
MkSub(type, level, incl, apic_field, line_m1, parts_m1, ways_m1, sets_m1) ==
    [eax |-> type + 32 * level + 512 * incl + 16384 * apic_field,
     ebx |-> line_m1 + 4096 * parts_m1
               + 4194304 * (IF ways_m1 >= 512 THEN ways_m1 - 1024 ELSE ways_m1),
     ecx |-> sets_m1,
     edx |-> 0]

SubL1D     == MkSub(1, 1, 0, 1, 63, 0, 7, 63)
SubL1I     == MkSub(2, 1, 0, 1, 63, 0, 7, 63)
SubL2      == MkSub(3, 2, 0, 7, 63, 0, 15, 1023)
SubL3(k)   == MkSub(3, 3, 1, Pow2(k) - 1, 63, 0, 11, 16383)
SubTiny    == MkSub(1, 1, 0, 0, 63, 0, 0, 0)
SubL1DAlt  == MkSub(1, 1, 0, 5, 63, 0, 11, 63)
SubUnified == MkSub(3, 1, 0, 4095, 63, 0, 3, 63)
SubNoLevel == MkSub(3, 4, 0, 1, 63, 0, 7, 63)
SubOther   == MkSub(4, 1, 0, 1, 63, 0, 7, 63)
SubSetsMax == MkSub(3, 3, 0, 15, 63, 0, 0, 2147483647)
SubSetsAll == MkSub(3, 3, 0, 15, 63, 0, 0, -1)
SubHuge    == MkSub(3, 2, 0, 3, 4095, 1023, 1023, 1023)
SubL2Alt   == MkSub(3, 2, 1, 1, 63, 0, 7, 4095)

Subleaves == {SubL1D, SubL1I, SubL2, SubL3(4), SubTiny, SubL1DAlt, SubUnified,
              SubNoLevel, SubSetsMax, SubSetsAll, SubHuge, SubL2Alt}

BrandGHz   == <<"i", "7", " ", "@", " ", "3", ".", "6", "0", "G", "H", "z">>
BrandMHz   == <<"C", "P", "U", " ", "2", "4", "0", "0", "M", "H", "z">>
BrandPlain == <<"C", "P", "U">>

\* "Intel(R) Core(TM) i7 @ 3.60GHz"
BrandCoreI7 ==
    <<"I", "n", "t", "e", "l", "(", "R", ")", " ", "C", "o", "r", "e", "(",
      "T", "M", ")", " ", "i", "7", " ", "@", " ", "3", ".", "6", "0", "G",
      "H", "z">>

\* "Some CPU 2400MHz"
BrandSomeCPU ==
    <<"S", "o", "m", "e", " ", "C", "P", "U", " ", "2", "4", "0", "0", "M",
      "H", "z">>

\* "cpu 1.5 ghz"
BrandLower ==
    <<"c", "p", "u", " ", "1", ".", "5", " ", "g", "h", "z">>

\* "CPU 5 2.4GHz"
BrandSplit ==
    <<"C", "P", "U", " ", "5", " ", "2", ".", "4", "G", "H", "z">>

\* "Fast GHz CPU"
BrandNoNumber ==
    <<"F", "a", "s", "t", " ", "G", "H", "z", " ", "C", "P", "U">>

\* "GHz-class 2.4GHz": a unit with no number before it, then the rated speed
BrandUnitFirst ==
    <<"G", "H", "z", "-", "c", "l", "a", "s", "s", " ", "2", ".", "4", "G", "H", "z">>

\* "800MHz-4.2GHz": two speeds, the rated one last
BrandTwoSpeeds ==
    <<"8", "0", "0", "M", "H", "z", "-", "4", ".", "2", "G", "H", "z">>

\* "1.2GHz bus 800MHz": two speeds, the MHz one last
BrandMHzLast ==
    <<"1", ".", "2", "G", "H", "z", " ", "b", "u", "s", " ", "8", "0", "0", "M", "H", "z">>

BuildBase == [sets_overflow |-> "wrap", shl |-> "mod", fptoint |-> "indefinite"]

\* the core list of a machine with n logical processors, two per core
CoreList(n) ==
    [i \in 1..((n + 1) \div 2) |->
        [Relationship |-> "RelationProcessorCore",
         GroupMask |-> << {b % WordBits : b \in {2 * i - 2, 2 * i - 1} \cap (0..(n - 1))} >>]]

OsOf(n, procAff, aff0) == [procAff |-> procAff, aff0 |-> aff0, cores |-> CoreList(n)]

HwBase ==
    [leaf0  |-> IntelLeaf0(31),
     ext0   |-> ExtLeaf(8),
     brand  |-> BrandGHz,
     leaf16 |-> [eax |-> 3600, ebx |-> 4200, ecx |-> 100],
     leaf15 |-> [eax |-> 2, ebx |-> 300, ecx |-> 24000000],
     leaf06 |-> [eax |-> 2],
     leaf4  |-> [prefix |-> <<SubL1D>>, term |-> TRUE, rest |-> SubOther],
     ext5   |-> [ecx |-> 0, edx |-> 0],
     ext6   |-> [ecx |-> 0, edx |-> 0],
     leafB  |-> <<[eax |-> 1, ecx |-> 256], [eax |-> 4, ecx |-> 513]>>,
     leaf1F |-> <<[eax |-> 1, ecx |-> 256], [eax |-> 4, ecx |-> 513],
                  [eax |-> 6, ecx |-> 1282]>>,
     apic   |-> [p \in 0..(WordBits - 1) |-> p],
     leaf1A |-> [p \in 0..(WordBits - 1) |->
                    IF p % 2 = 0 THEN 1073741824 ELSE 536870912]]

Machine(h, o, b) == [hw |-> h, os |-> o, build |-> b]

\* machines that differ in what the frequency chain reads
FreqMaxLeaves == {5, 21, 22}

Leaf16Values == {[eax |-> 0, ebx |-> 0, ecx |-> 0],
                 [eax |-> 2000, ebx |-> 0, ecx |-> 0],
                 [eax |-> 0, ebx |-> 4200, ecx |-> 0],
                 [eax |-> 0, ebx |-> 0, ecx |-> 100],
                 [eax |-> 3600, ebx |-> 4200, ecx |-> 0],
                 [eax |-> 3600 + 65536 * 5, ebx |-> 4200, ecx |-> 100]}

Leaf15Values == {[eax |-> 0, ebx |-> 0, ecx |-> 0],
                 [eax |-> 2, ebx |-> 300, ecx |-> 24000000],
                 [eax |-> 2, ebx |-> 0, ecx |-> 24000000],
                 [eax |-> 2, ebx |-> 216, ecx |-> -1],
                 [eax |-> 3, ebx |-> 203, ecx |-> 24576000],
                 [eax |-> 1, ebx |-> 2147483647, ecx |-> 2147483647],
                 [eax |-> 3, ebx |-> 1, ecx |-> 1],
                 [eax |-> 0, ebx |-> 300, ecx |-> 24000000],
                 [eax |-> -2, ebx |-> 300, ecx |-> 24000000]}

Brands == {BrandGHz, BrandMHz, BrandPlain}

FreqMachines ==
    {Machine([HwBase EXCEPT !.leaf0 = IntelLeaf0(ml), !.leaf16 = r16, !.leaf15 = r15,
                            !.leaf06 = [eax |-> t], !.brand = b, !.ext0 = e0],
             OsOf(2, {0, 1}, {0, 1}), BuildBase) :
        ml \in FreqMaxLeaves, r16 \in Leaf16Values, r15 \in Leaf15Values,
        t \in {0, 3}, b \in Brands, e0 \in {ExtLeaf(8)}}
    \cup {Machine([HwBase EXCEPT !.leaf0 = IntelLeaf0(ml), !.leaf16 = r16, !.ext0 = e0],
                  OsOf(2, {0, 1}, {0, 1}), BuildBase) :
            ml \in FreqMaxLeaves, r16 \in Leaf16Values, e0 \in {0, ExtLeaf(3)}}
    \cup {Machine([HwBase EXCEPT !.leaf0 = IntelLeaf0(21), !.leaf15 = r15],
                  OsOf(2, {0, 1}, {0, 1}), [BuildBase EXCEPT !.fptoint = "saturate"]) :
            r15 \in Leaf15Values}

\* machines on which the brand string alone decides the frequency
MoreBrands == {BrandCoreI7, BrandSomeCPU, BrandLower, BrandSplit, BrandNoNumber,
               BrandUnitFirst, BrandTwoSpeeds, BrandMHzLast}

BrandMachines ==
    {Machine([HwBase EXCEPT !.leaf0 = IntelLeaf0(5), !.brand = b],
             OsOf(2, {0, 1}, {0, 1}), BuildBase) : b \in MoreBrands}

\* machines that differ in vendor and in the cache leaves
MaxPrefix == 2

RECURSIVE SeqsUpTo(_, _)
SeqsUpTo(S, n) ==
    IF n = 0 THEN {<<>>}
    ELSE LET shorter == SeqsUpTo(S, n - 1)
         IN  shorter \cup {Append(q, x) : q \in shorter, x \in S}

Ext5Values == {[ecx |-> 0, edx |-> 0], [ecx |-> Word4(64, 1, 8, 32), edx |-> Word4(64, 1, 8, 64)]}

Ext6Values == {[ecx |-> 0, edx |-> 0],
               [ecx |-> 512 * 65536 + 24896, edx |-> 64 * 262144 + 41280]}

CacheMachines ==
    {Machine([HwBase EXCEPT !.leaf4 = [prefix |-> q, term |-> t, rest |-> SubOther]],
             OsOf(2, {0, 1}, {0, 1}), BuildBase) :
        q \in SeqsUpTo(Subleaves, MaxPrefix), t \in BOOLEAN}
    \cup {Machine([HwBase EXCEPT !.leaf4 = [prefix |-> <<SubL1D, SubSetsMax>>,
                                            term |-> TRUE, rest |-> SubL2]],
                  OsOf(2, {0, 1}, {0, 1}), [BuildBase EXCEPT !.sets_overflow = "wide"])}
    \cup {Machine([HwBase EXCEPT !.leaf0 = l0, !.ext5 = r5, !.ext6 = r6],
                  OsOf(2, {0, 1}, {0, 1}), BuildBase) :
            l0 \in {AmdLeaf0(13), AmdLeaf0(31), SwappedLeaf0(31), BlankLeaf0(31)},
            r5 \in Ext5Values, r6 \in Ext6Values}

\* machines that differ in processor count and affinity masks
MaxProcs == 3

NonEmptySubsets(S) == SUBSET S \ {{}}

AffinityMachines ==
    {Machine([HwBase EXCEPT !.leaf0 = IntelLeaf0(ml)], OsOf(n, pa, a0), BuildBase) :
        ml \in {10, 31},
        n \in 1..MaxProcs,
        pa \in NonEmptySubsets(0..(MaxProcs - 1)),
        a0 \in NonEmptySubsets(0..(MaxProcs - 1))}

\* a machine as the OS presents it: the process mask within the processors
\* present, the thread mask within the process mask
Plausible(m) ==
    LET n == CountProcessors(m.os.cores)
    IN  /\ m.os.aff0 \subseteq m.os.procAff
        /\ \/ n = 0
           \/ m.os.procAff \subseteq 0..(n - 1)

\* machines that differ in APIC ids and in the sharing counts of the cache levels
ApicMaps == {[p \in 0..(WordBits - 1) |-> p],
             [p \in 0..(WordBits - 1) |-> 2 * p],
             [p \in 0..(WordBits - 1) |-> 300 + p],
             [p \in 0..(WordBits - 1) |-> (0 - 1) - p]}

GroupCounts == {1, 2, 3, 16}

SharingMachines ==
    {Machine([HwBase EXCEPT !.apic = am,
                            !.leaf4 = [prefix |-> <<SubL1D, SubL2, SubL3(k)>>,
                                       term |-> TRUE, rest |-> SubOther]],
             OsOf(n, 0..(n - 1), 0..(n - 1)), BuildBase) :
        am \in ApicMaps, n \in GroupCounts, k \in {0, 1, 3}}
    \cup {Machine([HwBase EXCEPT !.apic = am, !.leaf0 = l0,
                                 !.ext5 = [ecx |-> Word4(64, 1, 8, 32), edx |-> 0],
                                 !.ext6 = [ecx |-> 0, edx |-> 64 * 262144]],
                  OsOf(n, 0..(n - 1), 0..(n - 1)), BuildBase) :
            am \in ApicMaps, n \in GroupCounts, l0 \in {AmdLeaf0(31), SwappedLeaf0(31)}}

\* machines with more processors than an affinity mask has bits, and one on
\* which no processor is counted
LargeCounts == {66, 257}

LargeMachines ==
    {Machine(HwBase, OsOf(n, 0..(WordBits - 1), 0..(WordBits - 1)),
             [BuildBase EXCEPT !.shl = s]) :
        n \in LargeCounts, s \in {"mod", "zero"}}
    \cup {Machine(HwBase, OsOf(0, {0, 1}, {0, 1}), BuildBase)}

\* machines that differ in the levels the topology leaf reports
Lvl(type, shift, n) == [eax |-> shift, ecx |-> 256 * type + n]

TopoLevelLists ==
    {<<Lvl(1, 1, 0), Lvl(2, 4, 1)>>,
     <<Lvl(1, 1, 0), Lvl(2, 4, 1), Lvl(5, 6, 2)>>,
     <<Lvl(1, 0, 0), Lvl(2, 0, 1), Lvl(5, 0, 2)>>,
     <<Lvl(1, 1, 0), Lvl(3, 2, 1), Lvl(2, 3, 2), Lvl(4, 4, 3), Lvl(5, 5, 4)>>,
     <<Lvl(1, 1, 0), Lvl(0, 0, 1), Lvl(2, 4, 2), Lvl(5, 6, 3)>>,
     <<Lvl(2, 3, 0), Lvl(1, 1, 1), Lvl(1, 2, 2)>>,
     <<Lvl(1, 1, 0), Lvl(2, 2, 1), Lvl(3, 3, 2), Lvl(3, 3, 3), Lvl(4, 4, 4),
       Lvl(4, 4, 5), Lvl(3, 5, 6), Lvl(3, 5, 7), Lvl(5, 6, 8)>>}

TopoMachines ==
    {Machine([HwBase EXCEPT !.leaf0 = IntelLeaf0(ml), !.leafB = lv, !.leaf1F = lv,
                            !.apic = am],
             OsOf(3, 0..2, 0..2), BuildBase) :
        ml \in {11, 31}, lv \in TopoLevelLists, am \in ApicMaps}

Machines ==
    FreqMachines \cup BrandMachines \cup CacheMachines
      \cup {m \in AffinityMachines : Plausible(m)}
      \cup SharingMachines \cup LargeMachines \cup TopoMachines

(***************************************************************************)
(* The program: main() from its first line to return 0.                    *)
(***************************************************************************)
TopoInit == [topo_leaf |-> 0, total_logical_processors |-> 0, lp |-> 0,
             original_affinity |-> {}, glpi_calls |-> 0, state |-> "NotRun"]

Init ==
    \E m \in Machines :
        /\ hw = m.hw
        /\ os = m.os
        /\ build = m.build
        /\ pc = "start"
        /\ brand = <<>>
        /\ vendor = "VENDOR_UNKNOWN"
        /\ max_leaf = 0
        /\ freq = FreqInit
        /\ cache = CacheInit
        /\ ecx = 0
        /\ cpuidLog = {}
        /\ aff = m.os.aff0
        /\ topo = TopoInit
        /\ topo_array = <<>>
        /\ num_logical_cores = 0
        /\ groups = NoGroups
        /\ out = NoOutput
        /\ exit_status = {}

machine == <<hw, os, build>>

\* main, lines 530-540
Start ==
    /\ pc = "start"
    /\ brand' = get_brand_string
    /\ vendor' = get_cpu_vendor(hw.leaf0)
    /\ max_leaf' = get_max_cpuid_leaf
    /\ cpuidLog' = cpuidLog \cup {<<ExtLeaf(0), 0>>, <<0, 0>>}
                     \cup (IF hw.ext0 >= 0 \/ hw.ext0 < ExtLeaf(4) THEN {}
                           ELSE {<<ExtLeaf(2), 0>>, <<ExtLeaf(3), 0>>, <<ExtLeaf(4), 0>>})
    /\ pc' = "leaf16"
    /\ UNCHANGED <<machine, freq, cache, ecx, aff, topo, topo_array,
                   num_logical_cores, groups, out, exit_status>>

\* main, lines 542-559
Leaf16 ==
    /\ pc = "leaf16"
    /\ freq' = Leaf16Stage(freq, max_leaf, hw.leaf16)
    /\ cpuidLog' = cpuidLog \cup (IF max_leaf >= 22 THEN {<<22, 0>>} ELSE {})
    /\ pc' = "leaf15"
    /\ UNCHANGED <<machine, brand, vendor, max_leaf, cache, ecx, aff, topo,
                   topo_array, num_logical_cores, groups, out, exit_status>>

\* main, lines 561-584
Leaf15 ==
    /\ pc = "leaf15"
    /\ freq' = Leaf15Stage(freq, max_leaf, hw.leaf15)
    /\ cpuidLog' = cpuidLog \cup (IF max_leaf >= 21 THEN {<<21, 0>>} ELSE {})
    /\ pc' = "leaf06"
    /\ UNCHANGED <<machine, brand, vendor, max_leaf, cache, ecx, aff, topo,
                   topo_array, num_logical_cores, groups, out, exit_status>>

\* main, lines 586-591
Leaf06 ==
    /\ pc = "leaf06"
    /\ freq' = Leaf06Stage(freq, max_leaf, hw.leaf06)
    /\ cpuidLog' = cpuidLog \cup (IF max_leaf >= 6 THEN {<<6, 0>>} ELSE {})
    /\ pc' = "brand"
    /\ UNCHANGED <<machine, brand, vendor, max_leaf, cache, ecx, aff, topo,
                   topo_array, num_logical_cores, groups, out, exit_status>>

\* main, lines 593-601
BrandFallback ==
    /\ pc = "brand"
    /\ freq' = BrandStage(freq, brand)
    /\ pc' = "wmi"
    /\ UNCHANGED <<machine, brand, vendor, max_leaf, cache, ecx, cpuidLog, aff,
                   topo, topo_array, num_logical_cores, groups, out, exit_status>>

\* what get_max_clock_wmi() may return
WmiValues == {0, 3000}

\* main, lines 603-619
WmiFallback ==
    /\ pc = "wmi"
    /\ \E wmi_max \in WmiValues : freq' = WmiStage(freq, wmi_max)
    /\ pc' = "cache"
    /\ UNCHANGED <<machine, brand, vendor, max_leaf, cache, ecx, cpuidLog, aff,
                   topo, topo_array, num_logical_cores, groups, out, exit_status>>

\* main, lines 621-627: the vendor dispatch; detect_amd_caches runs whole
CacheDispatch ==
    /\ pc = "cache"
    /\ IF vendor = "VENDOR_INTEL"
       THEN /\ pc' = "intel_loop"
            /\ UNCHANGED <<cache, cpuidLog>>
       ELSE IF vendor = "VENDOR_AMD"
       THEN /\ cache' = detect_amd_caches(cache, hw.ext5, hw.ext6)
            /\ cpuidLog' = cpuidLog \cup {<<ExtLeaf(5), 0>>, <<ExtLeaf(6), 0>>}
            /\ pc' = "topology"
       ELSE /\ pc' = "topology"
            /\ UNCHANGED <<cache, cpuidLog>>
    /\ ecx' = 0
    /\ UNCHANGED <<machine, brand, vendor, max_leaf, freq, aff, topo, topo_array,
                   num_logical_cores, groups, out, exit_status>>

\* detect_intel_caches, lines 254-300: one iteration of the subleaf loop
IntelStep ==
    /\ pc = "intel_loop"
    /\ ecx < MaxSubleaves
    /\ cpuidLog' = cpuidLog \cup {<<4, ecx>>}
    /\ IF IsTerminator(Leaf4(ecx))
       THEN /\ pc' = "topology"
            /\ UNCHANGED <<cache, ecx>>
       ELSE /\ cache' = IntelSubleaf(cache, Leaf4(ecx))
            /\ ecx' = ecx + 1
            /\ pc' = IF ecx + 1 < MaxSubleaves THEN "intel_loop" ELSE "topology"
    /\ UNCHANGED <<machine, brand, vendor, max_leaf, freq, aff, topo, topo_array,
                   num_logical_cores, groups, out, exit_status>>

\* how the two GetLogicalProcessorInformationEx calls and the malloc between
\* them may end
GlpiOutcomes == {"size0", "nomem", "fail", "ok"}

\* the calls of GetLogicalProcessorInformationEx made on each outcome
GlpiCalls(outcome) == IF outcome \in {"size0", "nomem"} THEN 1 ELSE 2

\* "if (max_leaf < 0xB) return;" testing against leaf 4 instead
TopoUnsupported_below_leaf_4(ml) == ml < 4

\* "if (max_leaf < 0xB) return;" (line 352)
TopoUnsupported(ml) == ml < 11

\* detect_apic_topology, lines 341-392: up to the saving of the affinity mask
TopoBegin ==
    /\ pc = "topology"
    /\ num_logical_cores' = 0
    /\ cpuidLog' = cpuidLog \cup {<<0, 0>>}
    /\ IF TopoUnsupported(hw.leaf0.eax)
       THEN /\ topo' = [topo EXCEPT !.state = "Unsupported"]
            /\ pc' = "derive"
            /\ UNCHANGED aff
       ELSE \E outcome \in GlpiOutcomes :
              IF outcome # "ok"
              THEN /\ topo' = [topo EXCEPT !.state = "QueryFailed",
                                           !.glpi_calls = GlpiCalls(outcome),
                                           !.topo_leaf = IF hw.leaf0.eax >= 31 THEN 31 ELSE 11]
                   /\ pc' = "derive"
                   /\ UNCHANGED aff
              ELSE LET saved == SetThreadAffinityMask(aff, {0})
                   IN  /\ topo' = [topo_leaf |-> IF hw.leaf0.eax >= 31 THEN 31 ELSE 11,
                                   total_logical_processors |-> CountProcessors(os.cores),
                                   lp |-> 0,
                                   original_affinity |-> saved.ret,
                                   glpi_calls |-> GlpiCalls(outcome),
                                   state |-> "Enumerating"]
                       /\ aff' = saved.aff
                       /\ pc' = "topo_loop"
    /\ UNCHANGED <<machine, brand, vendor, max_leaf, freq, cache, ecx, topo_array,
                   groups, out, exit_status>>

\* the loop iteration with a failed pin ending the loop instead of skipping lp
TopoIter_break_on_failure ==
    /\ pc = "topo_loop"
    /\ topo.lp < topo.total_logical_processors
    /\ num_logical_cores < MaxRecords
    /\ LET affinity_mask == AffinityMaskOf(topo.lp)
           pinned == SetThreadAffinityMask(aff, affinity_mask)
       IN  IF pinned.ret = {}
           THEN /\ topo' = [topo EXCEPT !.lp = topo.total_logical_processors]
                /\ UNCHANGED <<aff, topo_array, num_logical_cores, cpuidLog>>
           ELSE /\ aff' = pinned.aff
                /\ topo_array' = Append(topo_array,
                                        TopoRecord(topo.lp, RunningOn(affinity_mask),
                                                   topo.topo_leaf, hw.leaf0.eax))
                /\ num_logical_cores' = num_logical_cores + 1
                /\ cpuidLog' = cpuidLog \cup {<<topo.topo_leaf, 0>>}
                /\ topo' = [topo EXCEPT !.lp = topo.lp + 1]
    /\ UNCHANGED <<machine, pc, brand, vendor, max_leaf, freq, cache, ecx, groups, out,
                   exit_status>>

\* the loop iteration admitted while *num_cores <= 256
TopoIter_cap_inclusive ==
    /\ pc = "topo_loop"
    /\ topo.lp < topo.total_logical_processors
    /\ num_logical_cores <= MaxRecords
    /\ LET affinity_mask == AffinityMaskOf(topo.lp)
           pinned == SetThreadAffinityMask(aff, affinity_mask)
       IN  IF pinned.ret = {}
           THEN UNCHANGED <<aff, topo_array, num_logical_cores, cpuidLog>>
           ELSE /\ aff' = pinned.aff
                /\ topo_array' = Append(topo_array,
                                        TopoRecord(topo.lp, RunningOn(affinity_mask),
                                                   topo.topo_leaf, hw.leaf0.eax))
                /\ num_logical_cores' = num_logical_cores + 1
                /\ cpuidLog' = cpuidLog \cup {<<topo.topo_leaf, 0>>}
    /\ topo' = [topo EXCEPT !.lp = topo.lp + 1]
    /\ UNCHANGED <<machine, pc, brand, vendor, max_leaf, freq, cache, ecx, groups, out,
                   exit_status>>

\* detect_apic_topology, lines 394-457: one iteration of the processor loop
TopoIter ==
    /\ pc = "topo_loop"
    /\ topo.lp < topo.total_logical_processors
    /\ num_logical_cores < MaxRecords
    /\ LET affinity_mask == AffinityMaskOf(topo.lp)
           pinned == SetThreadAffinityMask(aff, affinity_mask)
       IN  IF pinned.ret = {}
           THEN UNCHANGED <<aff, topo_array, num_logical_cores, cpuidLog>>
           ELSE /\ aff' = pinned.aff
                /\ topo_array' = Append(topo_array,
                                        TopoRecord(topo.lp, RunningOn(affinity_mask),
                                                   topo.topo_leaf, hw.leaf0.eax))
                /\ num_logical_cores' = num_logical_cores + 1
                /\ cpuidLog' = cpuidLog \cup {<<topo.topo_leaf, 0>>}
    /\ topo' = [topo EXCEPT !.lp = topo.lp + 1]
    /\ UNCHANGED <<machine, pc, brand, vendor, max_leaf, freq, cache, ecx, groups, out,
                   exit_status>>

\* detect_apic_topology, lines 459-465: the loop has ended
TopoEnd ==
    /\ pc = "topo_loop"
    /\ ~(topo.lp < topo.total_logical_processors /\ num_logical_cores < MaxRecords)
    /\ aff' = RestoreAffinity(aff, topo.original_affinity)
    /\ topo' = [topo EXCEPT !.state = "Done"]
    /\ pc' = "derive"
    /\ UNCHANGED <<machine, brand, vendor, max_leaf, freq, cache, ecx, cpuidLog,
                   topo_array, num_logical_cores, groups, out, exit_status>>

\* what an allocated, never initialised table may hold
GarbageValues == {0, -1}

\* main ending the process with status 1 when a group table cannot be allocated
Derive_exit_on_alloc_failure ==
    /\ pc = "derive"
    /\ \E a1 \in BOOLEAN, a2 \in BOOLEAN, a3 \in BOOLEAN, garbage \in GarbageValues :
          /\ groups' = derive_cache_sharing_groups(topo_array, num_logical_cores,
                           cache.l1d, cache.l2, cache.l3,
                           [l1d |-> a1, l2 |-> a2, l3 |-> a3], garbage)
          /\ IF num_logical_cores > 0 /\ ~(a1 /\ a2 /\ a3)
             THEN pc' = "done" /\ exit_status' = {1}
             ELSE pc' = "emit" /\ UNCHANGED exit_status
    /\ UNCHANGED <<machine, brand, vendor, max_leaf, freq, cache, ecx, cpuidLog, aff,
                   topo, topo_array, num_logical_cores, out>>

\* main, lines 634-639
Derive ==
    /\ pc = "derive"
    /\ \E a1 \in BOOLEAN, a2 \in BOOLEAN, a3 \in BOOLEAN, garbage \in GarbageValues :
          groups' = derive_cache_sharing_groups(topo_array, num_logical_cores,
                        cache.l1d, cache.l2, cache.l3,
                        [l1d |-> a1, l2 |-> a2, l3 |-> a3], garbage)
    /\ pc' = "emit"
    /\ UNCHANGED <<machine, brand, vendor, max_leaf, freq, cache, ecx, cpuidLog, aff,
                   topo, topo_array, num_logical_cores, out, exit_status>>

\* main, lines 641-771
Emit ==
    /\ pc = "emit"
    /\ out' = EmitJson(freq, brand, cache, max_leaf, topo_array, num_logical_cores,
                       groups, get_turbo_ratios)
    /\ cpuidLog' = cpuidLog \cup {<<0, 0>>}
                     \cup (IF get_max_cpuid_leaf >= 22 THEN {<<22, 0>>} ELSE {})
    /\ exit_status' = {0}
    /\ pc' = "done"
    /\ UNCHANGED <<machine, brand, vendor, max_leaf, freq, cache, ecx, aff, topo,
                   topo_array, num_logical_cores, groups>>

Next ==
    \/ Start
    \/ Leaf16
    \/ Leaf15
    \/ Leaf06
    \/ BrandFallback
    \/ WmiFallback
    \/ CacheDispatch
    \/ IntelStep
    \/ TopoBegin
    \/ TopoIter
    \/ TopoEnd
    \/ Derive
    \/ Emit

Spec == Init /\ [][Next]_vars

\* main() is one thread whose every call returns: it keeps taking steps until
\* it returns.  This is weak fairness of Next, with "Next is enabled" written
\* as the state predicate it amounts to here, pc # "done".
FairSpec == Spec /\ ([]<>(pc = "done") \/ []<><<Next>>_vars)

(***************************************************************************)
(* Properties.                                                             *)
(***************************************************************************)
\* detect_apic_topology has returned
TopologyReturned == pc \in {"derive", "emit", "done"}

KnownSignature == VendorBytes(hw.leaf0) \in {GenuineIntel, AuthenticAMD}

GroupLevels == {"l1d", "l2", "l3"}

EmittedGroup(e, l) ==
    IF l = "l1d" THEN e.l1d_group ELSE IF l = "l2" THEN e.l2_group ELSE e.l3_group

EmittedInstances(l) ==
    IF l = "l1d" THEN out.cache_sharing.l1d_instances
    ELSE IF l = "l2" THEN out.cache_sharing.l2_instances
    ELSE out.cache_sharing.l3_instances

AllAllocated == groups.l1d.allocated /\ groups.l2.allocated /\ groups.l3.allocated

\* C1: after detect_apic_topology returns, the calling thread's affinity mask
\* equals the mask it had when the function was entered, on every path.
C1_AffinityRestored == TopologyReturned => aff = os.aff0

\* C2: whenever the frequency chain ends with success = 0, the emitted
\* base_mhz, max_mhz and bus_mhz are all 0.
C2_FailureReportsZero ==
    (pc = "done" /\ out.success = 0)
        => (out.base_mhz = 0 /\ out.max_mhz = 0 /\ out.bus_mhz = 0)

\* C3: for a cache level whose cores_sharing is the unknown sentinel -1, every
\* emitted apic_ids entry carries the "no group" sentinel -1 for that level.
C3_UnknownSharingNoGroup ==
    pc = "done" =>
        \A l \in GroupLevels :
            cache[l].cores_sharing = -1 =>
                \A i \in 1..Len(out.apic_ids) : EmittedGroup(out.apic_ids[i], l) = -1

\* C4: when the vendor string matches neither known signature, the emitted
\* l1d_instances, l2_instances and l3_instances are all 0, for any number of
\* enumerated logical processors.
C4_UnknownVendorNoInstances ==
    (pc = "done" /\ ~KnownSignature) =>
        \A l \in GroupLevels : EmittedInstances(l) = 0

\* C5: when the vendor string matches neither known signature, neither cache
\* decoder runs (no decoder leaf is queried), all four levels report size_kb = 0
\* and no detail field is emitted; in general the detail fields of a level are
\* emitted if and only if its size_kb > 0.
C5_UnknownVendorZeroCaches ==
    pc = "done" =>
        /\ ~KnownSignature =>
              /\ \A q \in cpuidLog : q[1] \notin {4, ExtLeaf(5), ExtLeaf(6)}
              /\ \A l \in Levels : out[l].kb = 0 /\ out[l].detail = {}
        /\ \A l \in Levels : (out[l].detail # {}) <=> (out[l].kb > 0)

\* C5 witness: a finished run on a machine whose vendor words are those of a
\* known signature in the wrong order and whose extended cache leaves are not 0.
C5_Witness ==
    /\ pc = "done"
    /\ hw.leaf0 = SwappedLeaf0(31)
    /\ hw.ext5.ecx # 0
    /\ out.l1d.kb = 0
    /\ out.num_logical_cores > 0

\* the level subleaf j of leaf 4 maps to
TargetOfSubleaf(j) == TargetOf(Field(Leaf4(j).eax, 0, 5), Field(Leaf4(j).eax, 5, 3))

\* C6: in detect_intel_caches each level is written by at most one subleaf, the
\* first that maps to it: a step at a later subleaf leaves the fields of every
\* level an earlier subleaf mapped to unchanged.
C6_FirstWriterWins ==
    [][pc = "intel_loop" =>
         \A l \in Levels :
            (\E j \in 0..(ecx - 1) : TargetOfSubleaf(j) = l) => cache'[l] = cache[l]]_vars

\* the sets-minus-one word read as an unsigned 32-bit number, plus one
SetsFieldPlusOne(r) ==
    IF r.ecx >= 0 THEN BigAdd(BigFromNat(r.ecx), <<1>>)
    ELSE BigAdd(BigAdd(BigFromNat((r.ecx + 1073741824) + 1073741824), <<0, 0, 2>>), <<1>>)

\* C7: for every level detect_intel_caches populates, the stored assoc,
\* partitions, line_size and sets are the decoded fields plus one and the stored
\* size_kb is (assoc * partitions * line_size * sets) / 1024 exactly.
C7_SizeExact ==
    [][pc = "intel_loop" =>
         \A l \in Levels :
            cache'[l] # cache[l] =>
               LET r     == Leaf4(ecx)
                   ways  == Field(r.ebx, 22, 10) + 1
                   parts == Field(r.ebx, 12, 10) + 1
                   line  == Field(r.ebx, 0, 12) + 1
                   sets  == SetsFieldPlusOne(r)
                   kb    == BigDivSmall(
                              BigMulSmall(BigMulSmall(BigMulSmall(sets, ways), parts), line),
                              1024)
               IN  /\ cache'[l].assoc = ways
                   /\ cache'[l].partitions = parts
                   /\ cache'[l].line_size = line
                   /\ WideFromInt(cache'[l].sets) = [neg |-> FALSE, mag |-> sets]
                   /\ WideFromInt(cache'[l].size_kb) = [neg |-> FALSE, mag |-> kb]]_vars

\* the leaf 4 subleaves queried so far
Queried4(log) == {q[2] : q \in {x \in log : x[1] = 4}}

\* C8: detect_intel_caches queries the leaf 4 subleaves in increasing order
\* from 0, never one beyond the first subleaf whose type field is 0, and never a
\* subleaf above 31.
C8_StopsAtTerminator ==
    [][/\ Queried4(cpuidLog) \subseteq Queried4(cpuidLog')
       /\ \A j \in Queried4(cpuidLog') \ Queried4(cpuidLog) :
             /\ j = Cardinality(Queried4(cpuidLog))
             /\ j <= 31
             /\ \A i \in 0..(j - 1) : Field(Leaf4(i).eax, 0, 5) # 0]_vars

\* C8 witness: the loop has ended at a type-0 subleaf that is followed by a
\* subleaf of nonzero type, which was not queried.
C8_Witness ==
    /\ pc = "topology"
    /\ \E j \in 1..31 :
          /\ <<4, j>> \in cpuidLog
          /\ Field(Leaf4(j).eax, 0, 5) = 0
          /\ Field(Leaf4(j + 1).eax, 0, 5) # 0
          /\ <<4, j + 1>> \notin cpuidLog

\* the emitted hardware identifiers are exactly 0 .. N-1 and the L3 sharing
\* count is 2^k
SharingCase(k) ==
    /\ out.num_logical_cores >= 1
    /\ {out.apic_ids[i].apic : i \in 1..Len(out.apic_ids)} = 0..(out.num_logical_cores - 1)
    /\ cache.l3.cores_sharing = Pow2(k)

GroupsByShift(k) ==
    /\ \A i \in 1..Len(out.apic_ids) :
          out.apic_ids[i].l3_group = out.apic_ids[i].apic \div Pow2(k)
    /\ out.cache_sharing.l3_instances
          = (out.num_logical_cores + Pow2(k) - 1) \div Pow2(k)

AssignedGroups(l) ==
    IF AllAllocated THEN {groups[l].at[i] : i \in 1..num_logical_cores} ELSE {}

\* C10: for each of L1D, L2 and L3 the emitted instance count equals the number
\* of distinct group ids assigned at that level to the enumerated processors.
C10_InstancesCountGroups ==
    pc = "done" =>
        \A l \in GroupLevels : EmittedInstances(l) = Cardinality(AssignedGroups(l))

\* the 32-bit ints a and b agree on every bit above the low k bits
AgreeAbove(a, b, k) ==
    /\ (a < 0) <=> (b < 0)
    /\ \A bit \in k..30 : Field(a, bit, 1) = Field(b, bit, 1)

\* the levels the grouper works on whose cores_sharing is 2^k
SharedBy(k) == {l \in GroupLevels : cache[l].cores_sharing = Pow2(k)}

PinSucceeds(lp) == SetThreadAffinityMask(os.aff0, AffinityMaskOf(lp)).ret # {}

\* the indices below n whose pin call succeeds
PinnedBelow(n) == {lp \in 0..(n - 1) : PinSucceeds(lp)}

Min(a, b) == IF a < b THEN a ELSE b

\* C12: a failed pin for lp produces no record for lp, is not retried and does
\* not stop the loop: while the loop runs the records are, in increasing order,
\* those of exactly the indices tried so far whose pin succeeded, and when it
\* has ended their number is the number of indices in 0..N-1 whose pin
\* succeeds, capped at 256; the emitted num_logical_cores and the length of
\* apic_ids are that number.
C12_FailedPinSkipped ==
    topo.state \in {"Enumerating", "Done"} =>
        LET N == CountProcessors(os.cores)
        IN  /\ Len(topo_array) = num_logical_cores
            /\ {topo_array[i].logical_index : i \in 1..Len(topo_array)}
                  = PinnedBelow(topo.lp)
            /\ \A i \in 1..(Len(topo_array) - 1) :
                  topo_array[i].logical_index < topo_array[i + 1].logical_index
            /\ topo.state = "Done" =>
                  num_logical_cores = Min(MaxRecords, Cardinality(PinnedBelow(N)))
            /\ (topo.state = "Done" /\ pc = "done") =>
                  /\ out.num_logical_cores = Min(MaxRecords, Cardinality(PinnedBelow(N)))
                  /\ Len(out.apic_ids) = out.num_logical_cores

\* C12 witness: of three processors the pin for index 0 failed and the pins
\* for 1 and 2 succeeded: two records, the first for index 1.
C12_Witness ==
    /\ pc = "done"
    /\ topo.state = "Done"
    /\ CountProcessors(os.cores) = 3
    /\ ~PinSucceeds(0)
    /\ PinSucceeds(1)
    /\ out.num_logical_cores = 2
    /\ out.apic_ids[1].index = 1
    /\ out.apic_ids[2].index = 2

\* C13: when the maximum supported leaf is below 0xB, detect_apic_topology ends
\* Unsupported with zero records, makes no GetLogicalProcessorInformationEx
\* call and never changes the thread's affinity, and the finished run emits
\* the frequency and cache fields with num_logical_cores = 0 and an empty
\* apic_ids array.
C13_NoTopologyLeaf ==
    hw.leaf0.eax < 11 =>
        /\ aff = os.aff0
        /\ topo.glpi_calls = 0
        /\ topo_array = <<>>
        /\ num_logical_cores = 0
        /\ TopologyReturned => topo.state = "Unsupported"
        /\ pc = "done" =>
              /\ out.num_logical_cores = 0
              /\ out.apic_ids = <<>>
              /\ out.base_mhz = freq.base_mhz
              /\ out.max_mhz = freq.max_mhz
              /\ out.bus_mhz = freq.bus_mhz
              /\ out.success = freq.success
              /\ \A l \in Levels : out[l].kb = cache[l].size_kb

\* C13 witness: a finished run on a processor whose maximum leaf is 5, with a
\* frequency from the brand string and a decoded L1D cache in the output.
C13_Witness ==
    /\ pc = "done"
    /\ hw.leaf0.eax = 5
    /\ topo.state = "Unsupported"
    /\ out.base_mhz = 3600
    /\ out.l1d.kb = 32
    /\ out.num_logical_cores = 0
    /\ out.apic_ids = <<>>

\* the positions of main() at which the stages after leaf 0x16 start
LaterStages == {"leaf15", "brand", "wmi"}

\* C14 (as claimed): a stage after leaf 0x16 changes no field of the frequency
\* result unless the stage before it left base_mhz or max_mhz at zero.
C14_StageOnlyAfterZero ==
    [][(pc \in LaterStages /\ freq.base_mhz # 0 /\ freq.max_mhz # 0)
          => freq' = freq]_vars

\* C14 (amended): a stage after leaf 0x16 changes base_mhz, max_mhz and
\* success only if the stage before it left base_mhz or max_mhz at zero; the
\* leaf 0x15 stage still fills a bus_mhz that is zero, and nothing else changes
\* bus_mhz.
C14_StageOnlyAfterZeroButBus ==
    [][(pc \in LaterStages /\ freq.base_mhz # 0 /\ freq.max_mhz # 0)
          => /\ freq'.base_mhz = freq.base_mhz
             /\ freq'.max_mhz = freq.max_mhz
             /\ freq'.success = freq.success
             /\ freq'.turbo_supported = freq.turbo_supported
             /\ freq'.bus_mhz # freq.bus_mhz => (pc = "leaf15" /\ freq.bus_mhz = 0)]_vars

\* C14 witness: leaf 0x16 gave base 3600 and max 4200 and no bus clock; the run
\* has finished with them unchanged although the brand string names 2400 MHz,
\* and with the bus clock of the crystal leaf.
C14_Witness ==
    /\ pc = "done"
    /\ hw.brand = BrandMHz
    /\ max_leaf = 22
    /\ hw.leaf16 = [eax |-> 3600, ebx |-> 4200, ecx |-> 0]
    /\ hw.leaf15.ecx = 24000000
    /\ out.base_mhz = 3600
    /\ out.max_mhz = 4200
    /\ out.bus_mhz = 24
    /\ out.success = 1

\* the brand-string stage is about to run, its parse yields a positive value
\* and base_mhz or max_mhz is still zero
BrandStageApplies ==
    /\ pc = "brand"
    /\ parse_frequency_from_brand(brand).ok # 0
    /\ parse_frequency_from_brand(brand).mhz > 0
    /\ (freq.base_mhz = 0 \/ freq.max_mhz = 0)

\* C15 (as claimed): when the brand-string stage applies, both base_mhz and
\* max_mhz become the parsed value and success is set, also when one of the
\* two was already nonzero.
C15_BrandFillsBoth ==
    [][BrandStageApplies
          => /\ freq'.base_mhz = parse_frequency_from_brand(brand).mhz
             /\ freq'.max_mhz = parse_frequency_from_brand(brand).mhz
             /\ freq'.success = 1]_vars

\* C15 (amended): when the brand-string stage applies, each of base_mhz and
\* max_mhz that is still zero becomes the parsed value, one that is already
\* nonzero is kept, and success is set.
C15_BrandFillsZeroOnes ==
    [][BrandStageApplies
          => /\ freq'.base_mhz = (IF freq.base_mhz = 0
                                  THEN parse_frequency_from_brand(brand).mhz
                                  ELSE freq.base_mhz)
             /\ freq'.max_mhz = (IF freq.max_mhz = 0
                                 THEN parse_frequency_from_brand(brand).mhz
                                 ELSE freq.max_mhz)
             /\ freq'.success = 1
             /\ freq'.bus_mhz = freq.bus_mhz
             /\ freq'.turbo_supported = freq.turbo_supported]_vars

\* C15 witness: leaf 0x16 gave base 2000 and no max; after the brand-string
\* stage on "... 3.60GHz" base is still 2000, max is 3600 and success is set.
C15_Witness ==
    /\ pc = "wmi"
    /\ max_leaf = 22
    /\ hw.leaf16 = [eax |-> 2000, ebx |-> 0, ecx |-> 0]
    /\ brand = BrandGHz
    /\ freq.base_mhz = 2000
    /\ freq.max_mhz = 3600
    /\ freq.success = 1

\* n is crystal * numerator / (denominator * 10^6) rounded to the nearest
\* integer (halves upward), r being the crystal leaf: 
\* 2 n D <= 2 c num + D < 2 (n + 1) D with D = den * 10^6
IsRoundedRatio(n, r) ==
    LET D  == BigMulNat(BigFromNat(r.eax), 1000000)
        X  == BigAdd(BigMulSmall(BigMulNat(BigFromNat(r.ecx), r.ebx), 2), D)
        D2 == BigMulSmall(D, 2)
    IN  /\ n >= 0
        /\ ~BigLess(X, BigMulNat(D2, n))
        /\ BigLess(X, BigAdd(BigMulNat(D2, n), D2))

\* n is hz / 10^6 rounded to the nearest integer (halves upward)
IsRoundedMHz(n, hz) == (hz - n * 1000000) \in (0 - 500000)..499999

\* the crystal-ratio stage is about to run on a leaf with positive numerator,
\* denominator and crystal clock
CrystalStageApplies ==
    /\ pc = "leaf15"
    /\ max_leaf >= 21
    /\ hw.leaf15.eax > 0
    /\ hw.leaf15.ebx > 0
    /\ hw.leaf15.ecx > 0

\* C16: in the crystal-ratio stage a still-zero base_mhz becomes crystal_mhz *
\* numerator / denominator rounded to nearest, a still-zero bus_mhz becomes the
\* crystal clock in MHz rounded to nearest, max_mhz becomes the derived base if
\* it and base_mhz were both zero, and a base_mhz, max_mhz or bus_mhz that is
\* already nonzero is not overwritten.
C16_CrystalStage ==
    [][CrystalStageApplies
          => /\ IF freq.base_mhz = 0
                THEN IsRoundedRatio(freq'.base_mhz, hw.leaf15)
                ELSE freq'.base_mhz = freq.base_mhz
             /\ IF freq.bus_mhz = 0
                THEN IsRoundedMHz(freq'.bus_mhz, hw.leaf15.ecx)
                ELSE freq'.bus_mhz = freq.bus_mhz
             /\ IF freq.max_mhz = 0 /\ freq.base_mhz = 0
                THEN freq'.max_mhz = freq'.base_mhz
                ELSE freq'.max_mhz = freq.max_mhz]_vars

\* the index of the last character of s at or before p that is not a space
RECURSIVE SkipSpaces(_, _)
SkipSpaces(s, p) == IF p >= 1 /\ s[p] = " " THEN SkipSpaces(s, p - 1) ELSE p

\* the index before the run of digits and dots of s that ends at p
RECURSIVE NumeralStart(_, _)
NumeralStart(s, p) ==
    IF p >= 1 /\ (s[p] \in Digits \/ s[p] = ".") THEN NumeralStart(s, p - 1) ELSE p

\* the unit token of a brand string and the number immediately before it:
\* [unit |-> 0 (none), 1000 (GHZ) or 1 (MHZ), numeral |-> the number's text]
UnitAndNumber(b) ==
    LET upper  == Upper(b)
        ghz    == StrStr3(upper, <<"G", "H", "Z">>)
        mhz    == StrStr3(upper, <<"M", "H", "Z">>)
        target == IF ghz # 0 THEN ghz ELSE mhz
        last   == SkipSpaces(upper, target - 1)
        first  == NumeralStart(upper, last) + 1
    IN  [unit    |-> IF ghz # 0 THEN 1000 ELSE IF mhz # 0 THEN 1 ELSE 0,
         numeral |-> IF target = 0 THEN <<>> ELSE SubSeq(upper, first, last)]

\* C17: parse_frequency_from_brand returns the number immediately preceding the
\* unit token converted to MHz (times 1000 and rounded for GHz, rounded for
\* MHz, unit in any case); "Intel(R) Core(TM) i7 @ 3.60GHz" gives 3600, "Some
\* CPU 2400MHz" gives 2400, and a string with neither GHZ nor MHZ fails and
\* writes no value.
C17_ParseNumberBeforeUnit ==
    /\ parse_frequency_from_brand(BrandCoreI7) = [ok |-> 1, mhz |-> 3600]
    /\ parse_frequency_from_brand(BrandSomeCPU) = [ok |-> 1, mhz |-> 2400]
    /\ pc # "start" =>
          LET u   == UnitAndNumber(brand)
              val == Atof(u.numeral, 1, 0, 1, FALSE)
          IN  /\ u.unit = 0 => parse_frequency_from_brand(brand) = [ok |-> 0, mhz |-> 0]
              /\ (u.unit # 0 /\ val.num > 0) =>
                    parse_frequency_from_brand(brand)
                       = [ok |-> 1, mhz |-> RoundScaled(val, u.unit)]

\* the fields of the JSON object, "base_mhz" first and "success" last (the
\* constant "msr_access" text and the three optional turbo fields, which are
\* held in cpuid_turbo, aside)
JsonFields == {"base_mhz", "max_mhz", "bus_mhz", "turbo_supported", "cpuid_turbo",
               "brand", "l1d", "l1i", "l2", "l3", "max_cpuid_leaf",
               "num_logical_cores", "apic_ids", "cache_sharing", "success"}

\* main() has returned 0 and standard output holds one complete object
ExitedZeroWithObject ==
    /\ pc = "done"
    /\ exit_status = {0}
    /\ DOMAIN out = JsonFields
    /\ Len(out.apic_ids) = out.num_logical_cores
    /\ out.success \in {0, 1}

\* C19: every run reaches its end with exit status 0 after printing exactly one
\* complete JSON object, whichever components failed: the run always ends, it
\* never ends in another way, and what has been printed is never printed again
\* or changed.
C19_ExitsZeroWithOneObject ==
    /\ <>ExitedZeroWithObject
    /\ []((pc = "done" \/ exit_status # {}) => ExitedZeroWithObject)
    /\ [][out # NoOutput => out' = out]_vars

\* C19 witness: a finished run in which the frequency chain failed and the
\* GetLogicalProcessorInformationEx query failed.
C19_Witness ==
    /\ ExitedZeroWithObject
    /\ out.success = 0
    /\ topo.state = "QueryFailed"
    /\ out.num_logical_cores = 0
    /\ out.apic_ids = <<>>

\* a malloc of derive_cache_sharing_groups failed on a run with at least one
\* enumerated processor
AllocationFailed == num_logical_cores > 0 /\ ~AllAllocated

\* C20: when the allocation of any one of the three group tables fails (with at
\* least one enumerated processor) every apic_ids entry reports -1 for
\* l1d_group, l2_group and l3_group, the three instance counts are 0, and no
\* table that was allocated but never initialised is read for the output.
C20_AllocationFailureEmpty ==
    (pc = "done" /\ AllocationFailed) =>
        /\ \A i \in 1..Len(out.apic_ids) : \A l \in GroupLevels :
              EmittedGroup(out.apic_ids[i], l) = -1
        /\ \A l \in GroupLevels : EmittedInstances(l) = 0
        /\ \A l \in GroupLevels : ~groups[l].allocated

\* the step of the processor loop that appends a record
RecordAppended == pc = "topo_loop" /\ Len(topo_array') = Len(topo_array) + 1

\* C21: whenever a record is appended for logical processor index lp, the
\* affinity mask set just before the topology leaf was read is exactly {lp}
\* (for every lp below the processor count, counts above 64 included), and the
\* record was read on a processor no earlier record was read on.
C21_PinSelectsOwnProcessor ==
    [][RecordAppended =>
          LET new == topo_array'[Len(topo_array')]
          IN  /\ new.logical_index = topo.lp
              /\ aff' = {topo.lp}
              /\ new.apic_id = TopoLeaf(topo.topo_leaf, 0, RunningOn(aff')).edx
              /\ \A i \in 1..Len(topo_array) :
                    topo_array[i].apic_id # new.apic_id]_vars

\* the (type, level) pairs with a target level
MappedPairs ==
    {<<<<1, 1>>, "l1d">>, <<<<2, 1>>, "l1i">>, <<<<3, 1>>, "l1d">>,
     <<<<3, 2>>, "l2">>, <<<<3, 3>>, "l3">>}

\* C22: a step of detect_intel_caches on a subleaf of nonzero type writes at
\* most the level its (type, level) pair maps to (data 1 -> L1D, instruction
\* 1 -> L1I, unified 1, 2, 3 -> L1D, L2, L3), writes that level when it is still
\* unfilled, and on any other pair changes no field of any level and goes on to
\* the next subleaf.
C22_TypeLevelMapping ==
    [][(pc = "intel_loop" /\ Field(Leaf4(ecx).eax, 0, 5) # 0) =>
          LET r    == Leaf4(ecx)
              pair == <<Field(r.eax, 0, 5), Field(r.eax, 5, 3)>>
              hits == {m[2] : m \in {x \in MappedPairs : x[1] = pair}}
          IN  /\ \A l \in Levels \ hits : cache'[l] = cache[l]
              /\ \A l \in hits :
                    cache[l].size_kb = 0 =>
                       /\ cache'[l].assoc = Field(r.ebx, 22, 10) + 1
                       /\ cache'[l].line_size = Field(r.ebx, 0, 12) + 1
              /\ hits = {} =>
                    /\ cache' = cache
                    /\ ecx' = ecx + 1
                    /\ <<4, ecx>> \in cpuidLog'
                    /\ pc' = "intel_loop" \/ ecx' = MaxSubleaves]_vars

\* C22 witness: after a data level-1 subleaf, a unified level-4 subleaf and a
\* subleaf of type 4, only L1D is filled and the loop is at the next subleaf.
C22_Witness ==
    /\ pc = "intel_loop"
    /\ ecx = 3
    /\ Leaf4(0) = SubL1D
    /\ Leaf4(1) = SubNoLevel
    /\ Leaf4(2) = SubOther
    /\ cache.l1d.size_kb = 32
    /\ cache.l1i = CacheInfoZero
    /\ cache.l2 = CacheInfoZero
    /\ cache.l3 = CacheInfoZero

\* the number of contiguous set bits of a 12-bit field starting at bit 0
LowOnes(field) ==
    CHOOSE c \in 0..12 :
        /\ field % Pow2(c) = Pow2(c) - 1
        /\ c = 12 \/ field % Pow2(c + 1) # Pow2(c + 1) - 1

\* C23: every level detect_intel_caches writes gets cores_sharing = 2^c, c the
\* number of contiguous set bits from bit 0 of EAX[25:14] of the subleaf, a
\* power of two between 1 and 4096; and for either vendor every level with a
\* size has cores_sharing positive or -1.
C23_SharingWidth ==
    [][/\ pc = "intel_loop" =>
            \A l \in Levels :
               cache'[l] # cache[l] =>
                  /\ cache'[l].cores_sharing = Pow2(LowOnes(Field(Leaf4(ecx).eax, 14, 12)))
                  /\ cache'[l].cores_sharing \in {Pow2(c) : c \in 0..12}
       /\ \A l \in Levels :
             cache'[l].size_kb # 0 =>
                cache'[l].cores_sharing > 0 \/ cache'[l].cores_sharing = -1]_vars

\* C23 witness: L1D decoded from a subleaf whose field is 5 (binary 101: one
\* low set bit) shares 2, L3 decoded from field 15 shares 16.
C23_Witness ==
    /\ pc = "topology"
    /\ Field(Leaf4(0).eax, 14, 12) = 5
    /\ cache.l1d.cores_sharing = 2
    /\ Field(Leaf4(1).eax, 14, 12) = 15
    /\ cache.l3.cores_sharing = 16

\* the subleaves 0..7 of the topology leaf before the first of level type 0
SeenLevels ==
    {i \in 0..7 : \A j \in 0..i : Field(TopoLeaf(topo.topo_leaf, j, 0).ecx, 8, 8) # 0}

\* the seen subleaves of level type t, and the shift width the last of them gives
LevelsOfType(t) == {i \in SeenLevels : Field(TopoLeaf(topo.topo_leaf, i, 0).ecx, 8, 8) = t}

ShiftWidth(t) ==
    IF LevelsOfType(t) = {} THEN 0
    ELSE LET last == CHOOSE i \in LevelsOfType(t) : \A j \in LevelsOfType(t) : j <= i
         IN  Field(TopoLeaf(topo.topo_leaf, last, 0).eax, 0, 5)

\* C24: every record has package_id = hardware_id >> core_shift, core_index =
\* the bits of hardware_id from smt_shift up to core_shift - 1, and tile_id =
\* hardware_id >> tile_shift if a level of type 5 was seen and 0 otherwise, the
\* shift widths being those of the levels of type 1, 2 and 5 among subleaves
\* 0..7 before the first level of type 0.
C24_RecordFields ==
    \A i \in 1..Len(topo_array) :
        LET rec  == topo_array[i]
            smt  == ShiftWidth(1)
            core == ShiftWidth(2)
            tile == ShiftWidth(5)
        IN  /\ rec.package_id = Shr(rec.apic_id, core)
            /\ rec.core_index =
                  IF core > smt THEN Field(rec.apic_id, smt, core - smt) ELSE 0
            /\ rec.tile_id =
                  IF LevelsOfType(5) # {} THEN Shr(rec.apic_id, tile) ELSE 0

\* C25: the number of records never exceeds 256 and a record is only ever
\* written at index *num_cores, which is then in 0..255, whatever the processor
\* count; written records are never changed, they are in increasing order of
\* logical_index, and no logical_index occurs twice.
C25_RecordsWithinCapacity ==
    [][/\ Len(topo_array') <= 256
       /\ num_logical_cores' <= 256
       /\ topo_array' # topo_array =>
             /\ num_logical_cores \in 0..255
             /\ Len(topo_array) = num_logical_cores
             /\ Len(topo_array') = num_logical_cores + 1
             /\ num_logical_cores' = num_logical_cores + 1
             /\ \A i \in 1..Len(topo_array) : topo_array'[i] = topo_array[i]
       /\ \A i, j \in 1..Len(topo_array') :
             i < j => topo_array'[i].logical_index < topo_array'[j].logical_index]_vars

\* C25 witness: 257 processors counted, the loop ended by the capacity with 256
\* records and the last index never tried.
C25_Witness ==
    /\ topo.state = "Done"
    /\ CountProcessors(os.cores) = 257
    /\ topo.lp = 256
    /\ num_logical_cores = 256
    /\ Len(topo_array) = 256
    /\ topo_array[256].logical_index = 255

\* the last GHZ or MHZ token of a brand string and the number immediately
\* before it: [unit |-> 0 (none), 1000 (GHZ) or 1 (MHZ), numeral |-> its text]
LastUnitAndNumber(b) ==
    LET upper  == Upper(b)
        units  == {i \in 1..(Len(upper) - 2) :
                      SubSeq(upper, i, i + 2) \in {<<"G", "H", "Z">>, <<"M", "H", "Z">>}}
        target == IF units = {} THEN 0 ELSE CHOOSE i \in units : \A j \in units : j <= i
        last   == SkipSpaces(upper, target - 1)
        first  == NumeralStart(upper, last) + 1
    IN  [unit    |-> IF target = 0 THEN 0
                     ELSE IF upper[target] = "G" THEN 1000 ELSE 1,
         numeral |-> IF target = 0 THEN <<>> ELSE SubSeq(upper, first, last)]

\* C26: the brand-string stage, run with base_mhz and max_mhz both zero, takes
\* the frequency from the last GHZ or MHZ token of the brand string and the
\* digits and decimal point before it: with several tokens the last one
\* decides, and an earlier token with no number before it does not make the
\* parse fail.
C26_TrailingUnitToken ==
    [][(pc = "brand" /\ freq.base_mhz = 0 /\ freq.max_mhz = 0) =>
          LET u   == LastUnitAndNumber(brand)
              val == Atof(u.numeral, 1, 0, 1, FALSE)
          IN  (u.unit # 0 /\ val.num > 0) =>
                 /\ freq'.base_mhz = RoundScaled(val, u.unit)
                 /\ freq'.max_mhz = RoundScaled(val, u.unit)
                 /\ freq'.success = 1]_vars

\* the values of core_type: reserved/unknown, performance, efficiency
CoreTypes == {0, 1, 2}

\* C27: every record's core_type is one of unknown (0), performance (1) and
\* efficiency (2), a classification of bits 31:24 of EAX of leaf 0x1A, and is
\* unknown (0) when the maximum supported leaf is below 0x1A.
C27_CoreTypeClassified ==
    \A i \in 1..Len(topo_array) :
        /\ topo_array[i].core_type \in CoreTypes
        /\ hw.leaf0.eax < 26 => topo_array[i].core_type = 0
        /\ pc = "done" => out.apic_ids[i].core_type \in CoreTypes

\* C28: whenever the emitted result has success = 1, the emitted base_mhz and
\* max_mhz are both nonzero.
C28_SuccessMeansFrequencies ==
    (pc = "done" /\ out.success = 1) => (out.base_mhz # 0 /\ out.max_mhz # 0)

\* C29: when topology enumeration produced no record, the grouper allocates no
\* group table, and the finished run prints an empty apic_ids array and 0 for
\* l1d_instances, l2_instances and l3_instances, whatever the vendor and the
\* decoded cache levels are.
C29_NoRecordsNoGroups ==
    (pc \in {"emit", "done"} /\ topo_array = <<>>) =>
        /\ \A l \in GroupLevels : ~groups[l].allocated
        /\ pc = "done" =>
              /\ out.num_logical_cores = 0
              /\ out.apic_ids = <<>>
              /\ \A l \in GroupLevels : EmittedInstances(l) = 0

\* C29 witness: a finished run on an Intel processor with a decoded L1D cache
\* on which the OS query succeeded and counted no processor.
C29_Witness ==
    /\ pc = "done"
    /\ topo.state = "Done"
    /\ topo.total_logical_processors = 0
    /\ topo_array = <<>>
    /\ vendor = "VENDOR_INTEL"
    /\ out.l1d.kb = 32
    /\ groups = NoGroups
    /\ out.apic_ids = <<>>
    /\ out.cache_sharing.l3_instances = 0

\* the words of leaf 0x15, read as signed 32-bit integers, are all positive
CrystalWordsPositive == hw.leaf15.eax > 0 /\ hw.leaf15.ebx > 0 /\ hw.leaf15.ecx > 0

\* C30: the crystal-ratio stage divides by EAX only when leaf 0x15 is supported
\* and its EAX, EBX and ECX are all strictly positive as signed integers: in
\* every other case the stage leaves every field of the frequency result as it
\* was, and whenever it changes a field the three words are positive.
C30_CrystalGuard ==
    [][pc = "leaf15" =>
          /\ (max_leaf < 21 \/ ~CrystalWordsPositive) => freq' = freq
          /\ freq' # freq => (max_leaf >= 21 /\ CrystalWordsPositive)
          /\ pc' = "leaf06"]_vars

\* C30 witness: the stage has been passed on a processor that supports leaf
\* 0x15 and reports a zero denominator with a nonzero numerator and crystal
\* clock, and the frequency result is still the initial one.
C30_Witness ==
    /\ pc = "leaf06"
    /\ max_leaf = 21
    /\ hw.leaf15.eax = 0
    /\ hw.leaf15.ebx = 300
    /\ hw.leaf15.ecx = 24000000
    /\ freq = FreqInit

=============================================================================
